---- MODULE Spec2Model ----
(***************************************************************************)
(* NeuroPathBP (src/predictor/neuropath.cc): a perceptron branch predictor *)
(* with per-thread history registers G (committed) and SG (speculative),   *)
(* the engine-wide partial-sum ledgers R (committed) and SR (speculative), *)
(* the weight table and the path history.                                  *)
(*                                                                         *)
(* Number representation.  G, SG, SR, R and the weights are C++ `unsigned` *)
(* (32-bit words).  A word is written here as its two's-complement value   *)
(* in -2^31 .. 2^31-1, so that word addition and subtraction are integer   *)
(* addition and subtraction and the conversion `int y_out = word + word`   *)
(* is the identity.  Within the bounds of this model no value comes near   *)
(* +-2^31 (TLC reports an overflow if one did), so no wrap-around is lost. *)
(* Comparisons of words are NOT integer comparisons: see ULess.            *)
(***************************************************************************)
EXTENDS Integers, Sequences, FiniteSets, TLC

\* ---------------------------------------------------------------- bounds
\* Total number of engine calls in one run.
MaxOps == 5
\* Number of calls in a run made of lookup() and update(squashed=false) only.
MaxCommitOps == 6
\* Number of saturatedUpdate() calls applied in a row to one weight.
MaxSatOps == 3
\* Number of lookup()/update() rounds a trained engine has been through,
\* and number of further calls made on it.
TrainRounds == 13
MaxTrainedOps == 4
\* Largest number of prediction records the pipeline holds at once.
MaxInflight == 2
\* Number of calls in a run in which the caller may pass a null record.
MaxNullOps == 3
\* Number of calls in a run that fills the path history.
MaxPathOps == 7
\* Number of calls in a run of the calls that create and consume records.
MaxRecordOps == 4
\* Number of calls in a long run on one branch of one thread.
MaxGateOps == 12
\* Thread ids (params->numThreads = 2).
Threads == {0, 1}
\* Branch addresses the pipeline presents; they hash to perceptrons 3 and 7.
Addrs == {3, 7}
\* Values of params->globalPredictorSize for the freshly constructed engine.
Sizes == {4}
\* Its value for the runs that fill the path history.
PathSizes == {2}
PathThread == 0
\* Its values for the runs that exercise saturatedUpdate() alone.
SatSizes == {4, 8, 16, 32}
\* Its value for the trained engine, and the branch it was trained on.
TrainedSize == 16
TrainedThread == 0
TrainedAddr == 3

\* ------------------------------------------------------------- constants
perceptronCount == 10

\* The value of a BPHistory field that was never assigned (globalUsed is
\* written as "true" or left indeterminate; nothing reads it).
Indeterminate == "indeterminate"
\* Placeholder for an argument an operation does not take.
None == "none"

VARIABLES
  globalPredictorSize, \* H: history length, params->globalPredictorSize
  weightBoundsWide,    \* how this build compares a weight with max/min_weight
  G,                   \* committed history register, one per thread
  SG,                  \* speculative history register, one per thread
  SR,                  \* speculative partial sums, index 0..H
  R,                   \* committed partial sums, index 0..H
  weightsTable,        \* [perceptron][position 0..H]
  path,                \* recent branch addresses, newest first
  inflight,            \* the pipeline's records not yet passed to update/squash
  live,                \* the BPHistory objects allocated and not deleted
  aborted,             \* the process died on a failed assert
  NDEBUG,              \* this build compiles assert() to nothing
  outcomes,            \* per thread: the outcomes reported via update(), in order
  asPredicted,         \* no update(squashed=false) has contradicted its record
  nops,                \* number of engine calls made
  last                 \* the last call: arguments, result, engine state before it

vars == <<globalPredictorSize, weightBoundsWide, G, SG, SR, R, weightsTable,
          path, inflight, live, aborted, NDEBUG, outcomes, asPredicted, nops,
          last>>

\* ------------------------------------------------------ bit arithmetic
RECURSIVE Pow2(_)
Pow2(n) == IF n <= 0 THEN 1 ELSE 2 * Pow2(n - 1)

RECURSIVE floorLog2(_)
floorLog2(x) == IF x <= 1 THEN 0 ELSE 1 + floorLog2(x \div 2)

\* gem5 base/intmath.hh: ceilLog2(1) = 0, otherwise floorLog2(n - 1) + 1.
ceilLog2(n) == IF n = 1 THEN 0 ELSE floorLog2(n - 1) + 1

isPowerOf2(n) == n > 0 /\ Pow2(floorLog2(n)) = n

\* gem5 base/bitfield.hh: mask(nbits) = (1 << nbits) - 1.
mask(nbits) == Pow2(nbits) - 1

\* Bitwise AND of two non-negative integers.
RECURSIVE BitAnd(_, _)
BitAnd(a, b) ==
  IF a = 0 \/ b = 0 THEN 0
  ELSE 2 * BitAnd(a \div 2, b \div 2) + (IF a % 2 = 1 /\ b % 2 = 1 THEN 1 ELSE 0)

\* Bitwise OR of a non-negative integer with a single bit.
BitOrBit(a, bit) == IF a % 2 = 1 THEN a ELSE a + bit

Bit(b) == IF b THEN 1 ELSE 0

\* a < b on 32-bit unsigned words given by their two's-complement values:
\* a negative value is a word with the top bit set, above every
\* non-negative one.
ULess(a, b) == IF (a >= 0) = (b >= 0) THEN a < b ELSE b < 0

\* ------------------------------------------------- constructor-derived
globalHistoryBits == ceilLog2(globalPredictorSize)
globalHistoryMask == globalPredictorSize - 1
historyRegisterMask == mask(globalHistoryBits)
\* theta with the offset subtracted: 2.14 * (H + 1) - 20.58, truncated.
theta_offsetSubtracted ==
  LET x == 214 * (globalPredictorSize + 1) - 2058
  IN IF x >= 0 THEN x \div 100 ELSE -((-x) \div 100)

\* theta = 2.14 * (H + 1) + 20.58; it is only ever compared with the
\* integer abs(y_out), so its integer part decides every comparison.
theta == (214 * (globalPredictorSize + 1) + 2058) \div 100
\* (1 << (globalHistoryBits - 1)) - 1; a size of 1 would shift by -1, which
\* is undefined, and is not among the sizes used here.
max_weight == Pow2(globalHistoryBits - 1) - 1
min_weight == -(max_weight + 1)

Positions == 0..globalPredictorSize
Perceptrons == 0..(perceptronCount - 1)
ZeroLedger == [k \in Positions |-> 0]
ZeroWeights == [p \in Perceptrons |-> [j \in Positions |-> 0]]

Engine == [G |-> G, SG |-> SG, SR |-> SR, R |-> R,
           weightsTable |-> weightsTable, path |-> path]

\* ------------------------------------------------------------ operations
\* updatePath that never drops an address.
updatePath_unbounded(p, branch_addr) == <<branch_addr>> \o p

\* updatePath: insert at the front, keep at most H + 1 addresses.
updatePath(p, branch_addr) ==
  LET q == <<branch_addr>> \o p
  IN IF Len(q) > globalPredictorSize + 1 THEN SubSeq(q, 1, Len(q) - 1) ELSE q

\* `weight < max_weight` and `weight > min_weight` with weight an unsigned
\* word.  max_weight and min_weight are declared in cpu/pred/neuropath.hh,
\* which the repository does not hold, so both outcomes a build can
\* produce are modelled:
\*   weightBoundsWide = FALSE: the bounds are int or unsigned (or narrower);
\*     the usual arithmetic conversions turn the bound into an unsigned
\*     word and the comparison is unsigned;
\*   weightBoundsWide = TRUE: the bounds have a type that holds every
\*     unsigned value (a 64-bit signed integer, a double); the weight is
\*     zero-extended, so a word with the top bit set is a large positive
\*     number, above both bounds.
weightBelow(weight, bound) ==
  IF weightBoundsWide THEN (weight >= 0 /\ weight < bound)
  ELSE ULess(weight, bound)

weightAbove(weight, bound) ==
  IF weightBoundsWide THEN (weight < 0 \/ weight > bound)
  ELSE ULess(bound, weight)

saturatedUpdate(weight, inc) ==
  IF inc /\ weightBelow(weight, max_weight) THEN weight + 1
  ELSE IF ~inc /\ weightAbove(weight, min_weight) THEN weight - 1
  ELSE weight

\* int y_out = weightsTable[curPerceptron][0] + SR[globalPredictorSize]
y_out(e, curPerceptron) ==
  e.weightsTable[curPerceptron][0] + e.SR[globalPredictorSize]

\* abs(y_out) on int.
abs(y) == IF y < 0 THEN -y ELSE y

\* The ledger roll that adds the weight whatever the prediction.
SR_prime_addsAlways(e, curPerceptron, prediction) ==
  [k \in 0..globalPredictorSize |->
     IF k = 0 THEN 0
     ELSE e.SR[k - 1]
            + e.weightsTable[curPerceptron][globalPredictorSize - (k - 1)]]

\* The ledger lookup() leaves in SR: SR_prime[k_j + 1] = SR[k_j] +- weight j
\* with k_j = H - j, then entry 0 set to 0.
SR_prime(e, curPerceptron, prediction) ==
  [k \in Positions |->
     IF k = 0 THEN 0
     ELSE LET j == globalPredictorSize - (k - 1)
          IN IF prediction THEN e.SR[k - 1] + e.weightsTable[curPerceptron][j]
             ELSE e.SR[k - 1] - e.weightsTable[curPerceptron][j]]

\* The ledger update() leaves in R, rolled with the confirmed outcome.
R_prime(e, curPerceptron, taken) ==
  [k \in Positions |->
     IF k = 0 THEN 0
     ELSE LET j == globalPredictorSize - (k - 1)
          IN IF taken THEN e.R[k - 1] + e.weightsTable[curPerceptron][j]
             ELSE e.R[k - 1] - e.weightsTable[curPerceptron][j]]

\* The history shift without the mask.
shiftHistory_unmasked(h, bit) == BitOrBit(2 * h, Bit(bit))

\* ((h << 1) | bit) & historyRegisterMask
shiftHistory(h, bit) == BitAnd(BitOrBit(2 * h, Bit(bit)), historyRegisterMask)

\* lookup() with y_out held in an unsigned: `y_out >= 0` is always true.
lookup_unsignedY(e, tid, branch_addr) ==
  LET curPerceptron == branch_addr % perceptronCount
  IN [e |-> [e EXCEPT !.path = updatePath(e.path, branch_addr),
                      !.SR = SR_prime(e, curPerceptron, TRUE),
                      !.SG[tid] = shiftHistory(e.SG[tid], TRUE)],
      prediction |-> TRUE,
      history |-> [globalHistory |-> e.SG[tid], globalPredTaken |-> TRUE,
                   globalUsed |-> Indeterminate]]

\* lookup(): the new engine state, the returned prediction and the record.
lookup(e, tid, branch_addr) ==
  LET curPerceptron == branch_addr % perceptronCount
      prediction == (y_out(e, curPerceptron) >= 0)
      history == [globalHistory |-> e.SG[tid],
                  globalPredTaken |-> prediction,
                  globalUsed |-> Indeterminate]
  IN [e |-> [e EXCEPT !.path = updatePath(e.path, branch_addr),
                      !.SR = SR_prime(e, curPerceptron, prediction),
                      !.SG[tid] = shiftHistory(e.SG[tid], prediction)],
      prediction |-> prediction,
      history |-> history]

\* uncondBranch() that evaluates the perceptron as lookup() does.
uncondBranch_rollsSR(e, tid, pc) ==
  [e |-> [e EXCEPT !.path = updatePath(e.path, pc),
                   !.SR = SR_prime(e, pc % perceptronCount, TRUE),
                   !.SG[tid] = shiftHistory(e.SG[tid], TRUE)],
   history |-> [globalHistory |-> e.SG[tid],
                globalPredTaken |-> TRUE,
                globalUsed |-> "true"]]

\* uncondBranch(): the new engine state and the record.
uncondBranch(e, tid, pc) ==
  [e |-> [e EXCEPT !.path = updatePath(e.path, pc),
                   !.SG[tid] = shiftHistory(e.SG[tid], TRUE)],
   history |-> [globalHistory |-> e.SG[tid],
                globalPredTaken |-> TRUE,
                globalUsed |-> "true"]]

\* btbUpdate(): G[tid] &= (historyRegisterMask & ~1).
btbUpdate(e, tid) ==
  [e EXCEPT !.G[tid] =
     BitAnd(e.G[tid], historyRegisterMask - (historyRegisterMask % 2))]

\* The learning loop of update(), j = from .. H, on weight table w.
\* path[j % path.size()] divides by zero on an empty path; no call of
\* update() in this model sees one (a record exists only after a push).
RECURSIVE learnPath(_, _, _, _, _)
learnPath(w, p, thread_history, taken, j) ==
  IF j > globalPredictorSize THEN w
  ELSE LET k == p[(j % Len(p)) + 1] % perceptronCount
           agree == ((thread_history \div Pow2(j)) % 2) = Bit(taken)
       IN learnPath([w EXCEPT ![k][j] = saturatedUpdate(@, agree)],
                    p, thread_history, taken, j + 1)

\* update() without the confidence gate.
learns_always(y, squashed) == TRUE

\* The condition under which update() learns.
learns(y, squashed) == squashed \/ abs(y) <= theta

\* update(), first part: roll R with the outcome and shift it into G[tid].
commit(e, tid, curPerceptron, taken) ==
  [e EXCEPT !.R = R_prime(e, curPerceptron, taken),
            !.G[tid] = shiftHistory(e.G[tid], taken)]

\* update() that never restores the speculative state.
resync_skipped(e, tid, squashed) == e

\* update(), inside the learning branch: if (squashed) { SG = G; SR = R; }
resync(e, tid, squashed) ==
  IF squashed THEN [e EXCEPT !.SG[tid] = e.G[tid], !.SR = e.R] ELSE e

\* update(), the learning step: the bias of curPerceptron, then the
\* path-selected weights, steered by the history read on entry.
learn(e, curPerceptron, thread_history, taken) ==
  LET w == [e.weightsTable EXCEPT
              ![curPerceptron][0] = saturatedUpdate(@, taken)]
  IN [e EXCEPT !.weightsTable = learnPath(w, e.path, thread_history, taken, 1)]

\* update() that learns first and rolls R with the weights it has learned.
update_learnsFirst(e, tid, branch_addr, taken, history, squashed) ==
  LET curPerceptron == branch_addr % perceptronCount
      y == y_out(e, curPerceptron)
      thread_history == e.SG[tid]
  IN IF learns(y, squashed)
     THEN resync(commit(learn(e, curPerceptron, thread_history, taken),
                        tid, curPerceptron, taken),
                 tid, squashed)
     ELSE commit(e, tid, curPerceptron, taken)

\* update() that learns from the history captured in the record.
update_readsRecord(e, tid, branch_addr, taken, history, squashed) ==
  LET curPerceptron == branch_addr % perceptronCount
      y == y_out(e, curPerceptron)
      thread_history == history.globalHistory
      committed == commit(e, tid, curPerceptron, taken)
  IN IF learns(y, squashed)
     THEN learn(resync(committed, tid, squashed), curPerceptron,
                thread_history, taken)
     ELSE committed

\* update(): the new engine state.  history is the object bp_history
\* points to; the pointer is asserted non-null and never dereferenced.
update(e, tid, branch_addr, taken, history, squashed) ==
  LET curPerceptron == branch_addr % perceptronCount
      y == y_out(e, curPerceptron)
      thread_history == e.SG[tid]
      committed == commit(e, tid, curPerceptron, taken)
  IN IF learns(y, squashed)
     THEN learn(resync(committed, tid, squashed), curPerceptron,
                thread_history, taken)
     ELSE committed

\* squash() that forgets the ledger.
squash_keepSR(e, tid) == [e EXCEPT !.SG[tid] = e.G[tid]]

\* squash() that forgets the history register.
squash_keepSG(e, tid) == [e EXCEPT !.SR = e.R]

\* squash(): SG[tid] = G[tid]; SR = R; the record is deleted.
squash(e, tid) == [e EXCEPT !.SG[tid] = e.G[tid], !.SR = e.R]

\* getGHR(): the history captured in the record.
getGHR(history) == history.globalHistory

\* --------------------------------------------------------------- actions
SetEngine(e) ==
  /\ G' = e.G
  /\ SG' = e.SG
  /\ SR' = e.SR
  /\ R' = e.R
  /\ weightsTable' = e.weightsTable
  /\ path' = e.path

\* The null pointer (also written for a call that takes no record).
Null == 0

\* What is remembered of the call made before the last one, when it was
\* a lookup(): the record it returned, its prediction, and whether SR = R
\* held when it was entered.
NoCall == [op |-> "none", bp_history |-> Null, ret |-> None, synced |-> TRUE]
Before ==
  IF nops = 0 \/ last.op # "lookup" THEN NoCall
  ELSE [op |-> last.op, bp_history |-> last.bp_history, ret |-> last.ret,
        synced |-> (last.pre.SR = last.pre.R)]

Call(op, tid, addr, taken, squashed, ret, history, bp_history) ==
  [op |-> op, tid |-> tid, addr |-> addr, taken |-> taken,
   squashed |-> squashed, ret |-> ret, history |-> history,
   bp_history |-> bp_history, pre |-> Engine, inflight |-> inflight,
   prev |-> Before]

Remove(s, i) == SubSeq(s, 1, i - 1) \o SubSeq(s, i + 1, Len(s))

Fixed == UNCHANGED <<globalPredictorSize, weightBoundsWide, NDEBUG>>

\* A call is made, and returns, only in a process no assert has ended.
Running == aborted = FALSE /\ aborted' = FALSE

\* `new BPHistory`: the address of an object that is not live; the
\* allocator hands out the lowest free one.
NewRecord == CHOOSE p \in 1..(Cardinality(live) + 1) : p \notin live

\* `delete history`: the object is no longer live; deleting a null
\* pointer does nothing.
Delete(ptr) == live \ {ptr}

Lookup(tid, branch_addr) ==
  /\ Running
  /\ Len(inflight) < MaxInflight
  /\ LET r == lookup(Engine, tid, branch_addr)
     IN /\ SetEngine(r.e)
        /\ inflight' = Append(inflight, [tid |-> tid, addr |-> branch_addr,
                                         history |-> r.history,
                                         bp_history |-> NewRecord])
        /\ live' = live \cup {NewRecord}
        /\ last' = Call("lookup", tid, branch_addr, None, None,
                        r.prediction, r.history, NewRecord)
  /\ nops' = nops + 1
  /\ UNCHANGED <<outcomes, asPredicted>>
  /\ Fixed

UncondBranch(tid, pc) ==
  /\ Running
  /\ Len(inflight) < MaxInflight
  /\ LET r == uncondBranch(Engine, tid, pc)
     IN /\ SetEngine(r.e)
        /\ inflight' = Append(inflight, [tid |-> tid, addr |-> pc,
                                         history |-> r.history,
                                         bp_history |-> NewRecord])
        /\ live' = live \cup {NewRecord}
        /\ last' = Call("uncondBranch", tid, pc, None, None, None, r.history,
                        NewRecord)
  /\ nops' = nops + 1
  /\ UNCHANGED <<outcomes, asPredicted>>
  /\ Fixed

\* The pipeline passes a record back with the thread and address it was
\* created for.  It retires a thread's branches oldest first ...
Update(i, taken, squashed) ==
  /\ Running
  /\ i \in DOMAIN inflight
  /\ \A k \in 1..(i - 1) : inflight[k].tid # inflight[i].tid
  /\ LET b == inflight[i]
     IN /\ SetEngine(update(Engine, b.tid, b.addr, taken, b.history, squashed))
        /\ outcomes' = [outcomes EXCEPT ![b.tid] = Append(@, taken)]
        /\ asPredicted' =
             (asPredicted /\ (squashed \/ taken = b.history.globalPredTaken))
        /\ last' = Call("update", b.tid, b.addr, taken, squashed, None,
                        b.history, b.bp_history)
  /\ inflight' = Remove(inflight, i)
  /\ nops' = nops + 1
  /\ UNCHANGED live
  /\ Fixed

\* ... and squashes a thread's branches youngest first.
Squash(i) ==
  /\ Running
  /\ i \in DOMAIN inflight
  /\ \A k \in (i + 1)..Len(inflight) : inflight[k].tid # inflight[i].tid
  /\ LET b == inflight[i]
     IN /\ SetEngine(squash(Engine, b.tid))
        /\ live' = Delete(b.bp_history)
        /\ last' = Call("squash", b.tid, None, None, None, None, b.history,
                        b.bp_history)
  /\ inflight' = Remove(inflight, i)
  /\ nops' = nops + 1
  /\ UNCHANGED <<outcomes, asPredicted>>
  /\ Fixed

\* btbUpdate() is called for the prediction just made.
BtbUpdate(i) ==
  /\ Running
  /\ i \in DOMAIN inflight
  /\ i = Len(inflight)
  /\ LET b == inflight[i]
     IN /\ SetEngine(btbUpdate(Engine, b.tid))
        /\ last' = Call("btbUpdate", b.tid, b.addr, None, None, None,
                        b.history, b.bp_history)
  /\ nops' = nops + 1
  /\ UNCHANGED <<inflight, live, outcomes, asPredicted>>
  /\ Fixed

GetGHR(i) ==
  /\ Running
  /\ i \in DOMAIN inflight
  /\ LET b == inflight[i]
     IN last' = Call("getGHR", b.tid, None, None, None, getGHR(b.history),
                     b.history, b.bp_history)
  /\ nops' = nops + 1
  /\ UNCHANGED <<G, SG, SR, R, weightsTable, path, inflight, live,
                 outcomes, asPredicted>>
  /\ Fixed

FreshEngine ==
  [G |-> [t \in Threads |-> 0], SG |-> [t \in Threads |-> 0],
   SR |-> ZeroLedger, R |-> ZeroLedger, weightsTable |-> ZeroWeights,
   path |-> <<>>]

\* The engine as the constructor leaves it, for a size drawn from sizes,
\* in a build whose NDEBUG setting is drawn from builds.
Constructed(sizes, builds) ==
  /\ globalPredictorSize \in sizes
  /\ isPowerOf2(globalPredictorSize)
  /\ globalHistoryMask <= historyRegisterMask
  /\ weightBoundsWide \in BOOLEAN
  /\ G = [t \in Threads |-> 0]
  /\ SG = [t \in Threads |-> 0]
  /\ SR = ZeroLedger
  /\ R = ZeroLedger
  /\ weightsTable = ZeroWeights
  /\ path = <<>>
  /\ inflight = <<>>
  /\ live = {}
  /\ aborted = FALSE
  /\ NDEBUG \in builds
  /\ outcomes = [t \in Threads |-> <<>>]
  /\ asPredicted = TRUE
  /\ nops = 0
  /\ last = Call("init", None, None, None, None, None, None, Null)

\* The only assert() of the engine tests the record passed to update().
\* Callers that pass the records they were given never fail it, so for
\* them both settings of NDEBUG behave alike and one is enough.
InitSized(sizes) == Constructed(sizes, {FALSE})

Init == InitSized(Sizes)

Next ==
  \/ \E tid \in Threads, a \in Addrs : nops < MaxOps /\ Lookup(tid, a)
  \/ \E tid \in Threads, a \in Addrs : nops < MaxOps /\ UncondBranch(tid, a)
  \/ \E i \in 1..MaxInflight, taken \in BOOLEAN, squashed \in BOOLEAN :
        nops < MaxOps /\ Update(i, taken, squashed)
  \/ \E i \in 1..MaxInflight : nops < MaxOps /\ Squash(i)
  \/ \E i \in 1..MaxInflight : nops < MaxOps /\ BtbUpdate(i)
  \/ \E i \in 1..MaxInflight : nops < MaxOps /\ GetGHR(i)

Spec == Init /\ [][Next]_vars

\* Runs in which the pipeline only predicts and retires: lookup() and
\* update(squashed = false).
NextCommit ==
  \/ \E tid \in Threads, a \in Addrs : nops < MaxCommitOps /\ Lookup(tid, a)
  \/ \E i \in 1..MaxInflight, taken \in BOOLEAN :
        nops < MaxCommitOps /\ Update(i, taken, FALSE)

SpecCommit == Init /\ [][NextCommit]_vars

\* saturatedUpdate() on its own: one weight, drawn from
\* [min_weight, max_weight], stepped up or down a few times.
InitSat ==
  /\ globalPredictorSize \in SatSizes
  /\ isPowerOf2(globalPredictorSize)
  /\ weightBoundsWide \in BOOLEAN
  /\ \E w \in min_weight..max_weight :
       weightsTable = [ZeroWeights EXCEPT ![0][0] = w]
  /\ G = FreshEngine.G
  /\ SG = FreshEngine.SG
  /\ SR = ZeroLedger
  /\ R = ZeroLedger
  /\ path = <<>>
  /\ inflight = <<>>
  /\ live = {}
  /\ aborted = FALSE
  /\ NDEBUG = FALSE
  /\ outcomes = [t \in Threads |-> <<>>]
  /\ asPredicted = TRUE
  /\ nops = 0
  /\ last = Call("init", None, None, None, None, None, None, Null)

SaturatedUpdate(inc) ==
  /\ Running
  /\ weightsTable' =
       [weightsTable EXCEPT ![0][0] = saturatedUpdate(weightsTable[0][0], inc)]
  /\ last' = Call("saturatedUpdate", None, None, inc, None,
                  saturatedUpdate(weightsTable[0][0], inc), None, Null)
  /\ nops' = nops + 1
  /\ UNCHANGED <<G, SG, SR, R, path, inflight, live, outcomes, asPredicted>>
  /\ Fixed

NextSat == \E inc \in BOOLEAN : nops < MaxSatOps /\ SaturatedUpdate(inc)

SpecSat == InitSat /\ [][NextSat]_vars

\* A trained engine: TrainRounds rounds of lookup() and update(outcome =
\* false, squashed = true) on one branch of one thread of a fresh engine,
\* then any calls.
InitTrained == InitSized({TrainedSize})

TrainedLimit == 2 * TrainRounds + MaxTrainedOps

Training == nops < 2 * TrainRounds
Trained == 2 * TrainRounds <= nops /\ nops < TrainedLimit

NextTrained ==
  \/ Training /\ inflight = <<>> /\ Lookup(TrainedThread, TrainedAddr)
  \/ Training /\ inflight # <<>> /\ Update(1, FALSE, TRUE)
  \/ \E tid \in Threads, a \in Addrs : Trained /\ Lookup(tid, a)
  \/ \E tid \in Threads, a \in Addrs : Trained /\ UncondBranch(tid, a)
  \/ \E i \in 1..MaxInflight, taken \in BOOLEAN, squashed \in BOOLEAN :
        Trained /\ Update(i, taken, squashed)
  \/ \E i \in 1..MaxInflight : Trained /\ Squash(i)
  \/ \E i \in 1..MaxInflight : Trained /\ BtbUpdate(i)
  \/ \E i \in 1..MaxInflight : Trained /\ GetGHR(i)

SpecTrained == InitTrained /\ [][NextTrained]_vars

\* Runs long enough to fill the path history: the smallest engine whose
\* weight bounds are defined (H = 2, a path of at most 3 addresses), and
\* the calls that create and consume records, made for one thread (the
\* path history is shared by all threads).
InitPath == InitSized(PathSizes)

NextPath ==
  \/ \E a \in Addrs : nops < MaxPathOps /\ Lookup(PathThread, a)
  \/ \E a \in Addrs : nops < MaxPathOps /\ UncondBranch(PathThread, a)
  \/ \E i \in 1..MaxInflight, taken \in BOOLEAN, squashed \in BOOLEAN :
        nops < MaxPathOps /\ Update(i, taken, squashed)
  \/ \E i \in 1..MaxInflight : nops < MaxPathOps /\ Squash(i)

SpecPath == InitPath /\ [][NextPath]_vars

\* Short runs of the calls that create and consume records, on the fresh
\* engine, for every thread.
NextRecord ==
  \/ \E tid \in Threads, a \in Addrs : nops < MaxRecordOps /\ Lookup(tid, a)
  \/ \E tid \in Threads, a \in Addrs :
        nops < MaxRecordOps /\ UncondBranch(tid, a)
  \/ \E i \in 1..MaxInflight, taken \in BOOLEAN, squashed \in BOOLEAN :
        nops < MaxRecordOps /\ Update(i, taken, squashed)
  \/ \E i \in 1..MaxInflight : nops < MaxRecordOps /\ Squash(i)

SpecRecord == Init /\ [][NextRecord]_vars

\* Long runs on the fresh engine (H = 4): one thread predicting, retiring
\* and squashing one branch, long enough for its weights to saturate and
\* for the ledger to accumulate them.
NextGate ==
  \/ nops < MaxGateOps /\ Lookup(TrainedThread, TrainedAddr)
  \/ \E i \in 1..MaxInflight, taken \in BOOLEAN, squashed \in BOOLEAN :
        nops < MaxGateOps /\ Update(i, taken, squashed)
  \/ \E i \in 1..MaxInflight : nops < MaxGateOps /\ Squash(i)

SpecGate == Init /\ [][NextGate]_vars

\* Calls that pass a null record.  update() starts with assert(bp_history):
\* with asserts compiled in the process ends there.  With NDEBUG the call
\* runs as any other (update() never reads the record); on an empty path
\* its learning loop computes j % 0 and reads path[...] of an empty vector,
\* which is undefined: the process traps, or the read yields some address.
UpdateNull(tid, branch_addr, taken, squashed) ==
  /\ aborted = FALSE
  /\ IF ~NDEBUG
     THEN /\ aborted' = TRUE
          /\ UNCHANGED <<G, SG, SR, R, weightsTable, path, outcomes>>
     ELSE IF path # <<>> \/ ~learns(y_out(Engine, branch_addr % perceptronCount),
                                     squashed)
     THEN /\ aborted' = FALSE
          /\ SetEngine(update(Engine, tid, branch_addr, taken, None, squashed))
          /\ outcomes' = [outcomes EXCEPT ![tid] = Append(@, taken)]
     ELSE \/ /\ aborted' = TRUE
             /\ SetEngine([commit(Engine, tid, branch_addr % perceptronCount,
                                  taken) EXCEPT !.path = <<>>])
             /\ outcomes' = [outcomes EXCEPT ![tid] = Append(@, taken)]
          \/ \E garbage \in Addrs :
               /\ aborted' = FALSE
               /\ SetEngine([update([Engine EXCEPT !.path = <<garbage>>],
                                    tid, branch_addr, taken, None, squashed)
                               EXCEPT !.path = <<>>])
               /\ outcomes' = [outcomes EXCEPT ![tid] = Append(@, taken)]
  /\ last' = Call("update", tid, branch_addr, taken, squashed, None, None, Null)
  /\ nops' = nops + 1
  /\ UNCHANGED <<inflight, live, asPredicted>>
  /\ Fixed

\* squash() has no assert: it restores SG[tid] and SR, and `delete` of a
\* null pointer does nothing.
SquashNull(tid) ==
  /\ Running
  /\ SetEngine(squash(Engine, tid))
  /\ live' = Delete(Null)
  /\ last' = Call("squash", tid, None, None, None, None, None, Null)
  /\ nops' = nops + 1
  /\ UNCHANGED <<inflight, outcomes, asPredicted>>
  /\ Fixed

InitNull == Constructed(Sizes, BOOLEAN)

NextNull ==
  \/ \E tid \in Threads, a \in Addrs : nops < MaxNullOps /\ Lookup(tid, a)
  \/ \E tid \in Threads, a \in Addrs : nops < MaxNullOps /\ UncondBranch(tid, a)
  \/ \E i \in 1..MaxInflight, taken \in BOOLEAN, squashed \in BOOLEAN :
        nops < MaxNullOps /\ Update(i, taken, squashed)
  \/ \E i \in 1..MaxInflight : nops < MaxNullOps /\ Squash(i)
  \/ \E i \in 1..MaxInflight : nops < MaxNullOps /\ BtbUpdate(i)
  \/ \E i \in 1..MaxInflight : nops < MaxNullOps /\ GetGHR(i)
  \/ \E tid \in Threads, a \in Addrs, taken \in BOOLEAN, squashed \in BOOLEAN :
        nops < MaxNullOps /\ UpdateNull(tid, a, taken, squashed)
  \/ \E tid \in Threads : nops < MaxNullOps /\ SquashNull(tid)

SpecNull == InitNull /\ [][NextNull]_vars

\* ================================================================ claims
FromLookup(history) == history.globalUsed = Indeterminate
ZeroHistory == [t \in Threads |-> 0]

C2_RoundTrip ==
  (nops = 2 /\ last.op = "squash" /\ FromLookup(last.history)) =>
    /\ SR = ZeroLedger
    /\ R = ZeroLedger
    /\ SG = ZeroHistory
    /\ G = ZeroHistory

\* C2 witness: that squash, entered with the speculative history the
\* lookup had advanced.
C2_Witness ==
  /\ nops = 2
  /\ last.op = "squash"
  /\ FromLookup(last.history)
  /\ last.pre.SG[last.tid] = 1

\* The outcomes of seq shifted in oldest first, kept to width bits.
RECURSIVE ShiftedIn(_, _, _)
ShiftedIn(h, seq, width) ==
  IF seq = <<>> THEN h
  ELSE ShiftedIn((2 * h + Bit(Head(seq))) % Pow2(width), Tail(seq), width)

\* C3 (as claimed): after any number of update(squashed = false) calls on
\* a fresh engine, with lookups interleaved at will, the committed history
\* of each thread is its reported outcomes shifted in oldest first and
\* masked to H = globalPredictorSize bits.
C3_CommittedHistoryHBits ==
  \A t \in Threads : G[t] = ShiftedIn(0, outcomes[t], globalPredictorSize)

\* C4: an update(squashed = false) entered with |y| > theta, where
\* y = weights[a mod P][0] + SR[H], leaves the whole weight table as it was.
C4_LearningGate ==
  (/\ last.op = "update"
   /\ last.squashed = FALSE
   /\ abs(last.pre.weightsTable[last.addr % perceptronCount][0]
            + last.pre.SR[globalPredictorSize]) > theta) =>
    weightsTable = last.pre.weightsTable

\* C4 witness: such an update, on a table the learning step would have
\* changed.
C4_Witness ==
  /\ last.op = "update"
  /\ last.squashed = FALSE
  /\ abs(last.pre.weightsTable[last.addr % perceptronCount][0]
           + last.pre.SR[globalPredictorSize]) > theta
  /\ learn(last.pre, last.addr % perceptronCount, last.pre.SG[last.tid],
           last.taken).weightsTable # last.pre.weightsTable

\* C5 (as claimed): on a fresh engine with H = 4 and P = 10, lookup(t, a)
\* then update(t, a, outcome = false, record, squashed = false) leaves the
\* bias of perceptron a mod 10 at -1 and every other bias at 0.
C5_EndToEnd ==
  (/\ nops = 2
   /\ globalPredictorSize = 4
   /\ last.op = "update"
   /\ FromLookup(last.history)
   /\ last.taken = FALSE
   /\ last.squashed = FALSE) =>
    \A p \in Perceptrons :
      weightsTable[p][0] = IF p = last.addr % perceptronCount THEN -1 ELSE 0

\* C6: lookup(t, a) returns (weights[a mod P][0] + SR[H] >= 0), a signed
\* comparison on the state before the call; the first lookup on a fresh
\* engine returns true.
C6_LookupPrediction ==
  last.op = "lookup" =>
    /\ last.ret = (last.pre.weightsTable[last.addr % perceptronCount][0]
                     + last.pre.SR[globalPredictorSize] >= 0)
    /\ last.history.globalPredTaken = last.ret
    /\ (nops = 1 => last.ret = TRUE)

\* C6 witness: a lookup that predicted not taken, from a negative sum
\* whose ledger part was not zero.
C6_Witness ==
  /\ last.op = "lookup"
  /\ last.ret = FALSE
  /\ last.pre.SR[globalPredictorSize] # 0

Min(a, b) == IF a < b THEN a ELSE b
Max(a, b) == IF a > b THEN a ELSE b

\* C7 (as claimed): for a weight w in [minWeight, maxWeight], read as a
\* signed integer, saturatedUpdate(w, true) = min(w + 1, maxWeight) and
\* saturatedUpdate(w, false) = max(w - 1, minWeight).
C7_SaturatedUpdate ==
  (/\ last.op = "saturatedUpdate"
   /\ last.pre.weightsTable[0][0] \in min_weight..max_weight) =>
    LET w == last.pre.weightsTable[0][0]
    IN /\ weightsTable[0][0] = last.ret
       /\ last.ret = IF last.taken THEN Min(w + 1, max_weight)
                     ELSE Max(w - 1, min_weight)


\* C8 (as claimed): only update() changes R and the committed histories.
C8_CommittedOnlyByUpdate ==
  last.op \in {"lookup", "uncondBranch", "squash", "btbUpdate", "getGHR"} =>
    /\ R = last.pre.R
    /\ G = last.pre.G

\* The histories reachable from h by shifting in, in order, the bits of
\* some of the predictions in bits.
RECURSIVE Advanced(_, _)
Advanced(h, bits) ==
  IF bits = <<>> THEN {h}
  ELSE Advanced(h, Tail(bits))
         \cup Advanced((2 * h + Bit(Head(bits))) % (historyRegisterMask + 1),
                       Tail(bits))

RECURSIVE PredictionsOf(_, _)
PredictionsOf(t, records) ==
  IF records = <<>> THEN <<>>
  ELSE (IF Head(records).tid = t
        THEN <<Head(records).history.globalPredTaken>> ELSE <<>>)
         \o PredictionsOf(t, Tail(records))

\* C9 (as claimed): every thread's speculative history is its committed
\* history advanced by the bits of zero or more of its in-flight
\* predictions, in creation order; right after squash(t) the two are equal.
\* It is stated for the runs in which the pipeline reports a mispredicted
\* outcome only with squashed = true.
C9_SpeculativeAheadOfCommitted ==
  asPredicted =>
  /\ \A t \in Threads : SG[t] \in Advanced(G[t], PredictionsOf(t, inflight))
  /\ (last.op = "squash" => SG[last.tid] = G[last.tid])

\* C10: after update(t, a, outcome, record, squashed = true) the
\* speculative history of t equals its committed history and SR = R, both
\* already holding this outcome: the committed history is the old one with
\* the outcome shifted in at bit 0, R is the old R rolled with the outcome.
C10_SquashedUpdateResyncs ==
  (last.op = "update" /\ last.squashed = TRUE) =>
    LET cur == last.addr % perceptronCount
        H == globalPredictorSize
    IN /\ SG[last.tid] = G[last.tid]
       /\ SR = R
       /\ G[last.tid] % 2 = Bit(last.taken)
       /\ G[last.tid] =
            (2 * last.pre.G[last.tid] + Bit(last.taken)) % (historyRegisterMask + 1)
       /\ R[0] = 0
       /\ \A k \in 1..H :
            R[k] = IF last.taken
                   THEN last.pre.R[k - 1] + last.pre.weightsTable[cur][H - k + 1]
                   ELSE last.pre.R[k - 1] - last.pre.weightsTable[cur][H - k + 1]

\* C10 witness: a squashed update entered with SR # R and SG # G, whose
\* outcome changed both R and the committed history.
C10_Witness ==
  /\ last.op = "update"
  /\ last.squashed = TRUE
  /\ last.pre.SR # last.pre.R
  /\ last.pre.SG[last.tid] # last.pre.G[last.tid]
  /\ R # last.pre.R
  /\ G # last.pre.G

\* The records the pipeline holds.
InFlightRecords == {inflight[i].bp_history : i \in DOMAIN inflight}

\* C11 (as claimed): when every record is passed to exactly one of update()
\* and squash(), the live records are exactly the in-flight ones after any
\* sequence of calls, and none is live once all have been consumed.
C11_RecordsDestroyed ==
  /\ live = InFlightRecords
  /\ (inflight = <<>> => live = {})

\* C12 (as claimed): update() or squash() given a null record ends in the
\* assertion-failure state, with the engine as it was on entry.
C12_NullRecordIsFatal ==
  (last.op \in {"update", "squash"} /\ last.bp_history = Null) =>
    /\ aborted
    /\ Engine = last.pre

\* q is p with address a pushed at the front, the oldest entry evicted
\* when the length would exceed H + 1.
Pushed(q, a, p) ==
  /\ Len(q) = Min(Len(p) + 1, globalPredictorSize + 1)
  /\ q[1] = a
  /\ \A i \in 2..Len(q) : q[i] = p[i - 1]

\* C13: uncondBranch(t, a) returns a record with prediction = true and the
\* speculative history of t as it was before the call, pushes a to the
\* front of the path, sets the speculative history of t to
\* ((old << 1) | 1) & historyMask, and leaves SR, R, the weight table and
\* every committed history unchanged.  historyMask is the mask the engine
\* was configured with, historyRegisterMask.
C13_UncondBranchFrame ==
  last.op = "uncondBranch" =>
    /\ last.history.globalPredTaken = TRUE
    /\ last.history.globalHistory = last.pre.SG[last.tid]
    /\ Pushed(path, last.addr, last.pre.path)
    /\ SG[last.tid] =
         BitAnd(2 * last.pre.SG[last.tid] + 1, historyRegisterMask)
    /\ SR = last.pre.SR
    /\ R = last.pre.R
    /\ weightsTable = last.pre.weightsTable
    /\ G = last.pre.G

\* C13 witness: an uncondBranch on a trained perceptron (a ledger roll
\* would have changed SR), with a non-empty path, a non-zero committed
\* history and a speculative history whose top bit the mask drops.
C13_Witness ==
  /\ last.op = "uncondBranch"
  /\ SR_prime(last.pre, last.addr % perceptronCount, TRUE) # last.pre.SR
  /\ last.pre.path # <<>>
  /\ last.pre.G[last.tid] # 0
  /\ last.pre.SG[last.tid] >= (globalHistoryMask + 1) \div 2

C15_LookupRoll ==
  last.op = "lookup" =>
    LET H == globalPredictorSize
        p == last.addr % perceptronCount
        b == last.ret
    IN /\ SR[0] = 0
       /\ \A j \in 1..H :
            SR[H - j + 1] = IF b THEN last.pre.SR[H - j] + last.pre.weightsTable[p][j]
                            ELSE last.pre.SR[H - j] - last.pre.weightsTable[p][j]
       /\ SG[last.tid] =
            BitAnd(2 * last.pre.SG[last.tid] + Bit(b), historyRegisterMask)
       /\ R = last.pre.R
       /\ weightsTable = last.pre.weightsTable
       /\ G = last.pre.G
       /\ \A t \in Threads \ {last.tid} : SG[t] = last.pre.SG[t]

\* C15 witness: a lookup that predicted not taken on a perceptron with
\* non-zero weights (the roll subtracted them and changed SR), made while
\* another thread had a non-zero speculative history.
C15_Witness ==
  /\ last.op = "lookup"
  /\ last.ret = FALSE
  /\ SR # last.pre.SR
  /\ \E j \in 1..globalPredictorSize :
       last.pre.weightsTable[last.addr % perceptronCount][j] # 0
  /\ \E t \in Threads \ {last.tid} : SG[t] # 0

\* One saturating step on a signed weight: min(w + 1, maxWeight) up,
\* max(w - 1, minWeight) down.
ClampStep(w, up) ==
  IF up THEN Min(w + 1, max_weight) ELSE Max(w - 1, min_weight)

\* The weight table after the learning step of the last update(), each
\* selected weight moved by Step: the bias of perceptron a mod P by the
\* outcome, weight j of perceptron path[j mod path.length] mod P by whether
\* bit j of the speculative history read on entry equals the outcome.
LearnedTable(Step(_, _)) ==
  LET cur == last.addr % perceptronCount
      p == last.pre.path
      h == last.pre.SG[last.tid]
      w == last.pre.weightsTable
  IN [k \in Perceptrons |-> [j \in Positions |->
        IF j = 0
        THEN (IF k = cur THEN Step(w[k][j], last.taken) ELSE w[k][j])
        ELSE IF k = p[(j % Len(p)) + 1] % perceptronCount
        THEN Step(w[k][j], ((h \div Pow2(j)) % 2) = Bit(last.taken))
        ELSE w[k][j]]]

\* The last call was an update() that performed the learning step.
Learned ==
  /\ last.op = "update"
  /\ last.bp_history # Null
  /\ \/ last.squashed = TRUE
     \/ abs(last.pre.weightsTable[last.addr % perceptronCount][0]
               + last.pre.SR[globalPredictorSize]) <= theta

\* C16 (as claimed): an update() that performs the learning step moves the
\* bias of perceptron a mod P by one saturating step, up if the outcome is
\* taken and down otherwise, and for each j in 1..H moves weight j of
\* perceptron path[j mod path.length] mod P by one saturating step, up if
\* bit j of the thread's speculative history on entry equals the outcome
\* and down otherwise; no other weight changes.
C16_LearningStep ==
  Learned => weightsTable = LearnedTable(ClampStep)

\* The last two calls were lookup(t, a), entered with SR = R, and
\* update(t, a, outcome = the prediction, the record, squashed = false).
LookupThenUpdateAsPredicted ==
  /\ last.op = "update"
  /\ last.squashed = FALSE
  /\ last.prev.op = "lookup"
  /\ last.prev.bp_history = last.bp_history
  /\ last.prev.ret = last.taken
  /\ last.prev.synced

\* C17: from a state with SR = R, lookup(t, a) returning prediction b
\* followed at once by update(t, a, outcome = b, record, squashed = false)
\* gives a state with SR = R again: update() rolls R as lookup() rolled SR,
\* with the weights as they were before its learning step.
C17_CommittedRollMatches ==
  LookupThenUpdateAsPredicted => SR = R

\* C17 witness: such a pair on a perceptron with non-zero weights (the
\* roll changed R and SR) whose weights the update's learning step changed.
C17_Witness ==
  /\ LookupThenUpdateAsPredicted
  /\ R # last.pre.R
  /\ SR # ZeroLedger
  /\ \E j \in 1..globalPredictorSize :
       weightsTable[last.addr % perceptronCount][j]
         # last.pre.weightsTable[last.addr % perceptronCount][j]

Records ==
  [globalHistory : 0..historyRegisterMask, globalPredTaken : BOOLEAN,
   globalUsed : {"true", Indeterminate}]

\* C19: the effect of update() on the engine does not depend on the
\* contents of the record passed to it: from the state the last update()
\* was entered in, with the same thread, address, outcome and squashed
\* flag, a record holding any other captured history or prediction gives
\* the same weights, SR, R and history registers.
C19_RecordNotRead ==
  last.op = "update" =>
    \A history \in Records :
      LET e == update(last.pre, last.tid, last.addr, last.taken, history,
                      last.squashed)
      IN /\ e.weightsTable = weightsTable
         /\ e.SR = SR
         /\ e.R = R
         /\ e.G = G
         /\ e.SG = SG

\* C19 witness: an update() that learned, given a record whose captured
\* history and prediction both differ from the speculative history the
\* engine held and the outcome reported.
C19_Witness ==
  /\ Learned
  /\ weightsTable # last.pre.weightsTable
  /\ last.history.globalHistory # last.pre.SG[last.tid]
  /\ last.history.globalPredTaken # last.taken
  /\ last.pre.SG[last.tid] >= 2

\* Every weight of table w is within [minWeight, maxWeight].
WeightsClamped(w) ==
  \A p \in Perceptrons, j \in Positions : w[p][j] \in min_weight..max_weight

\* C20: with H = 4 (theta = 31) and the weights within [-2, 1], the
\* learning gate never blocks: in every state reachable by lookup,
\* uncondBranch, update, squash and btbUpdate calls,
\* |weights[p][0] + SR[H]| <= theta for every perceptron p, so every
\* update() performs the learning step whatever squashed is.
C20_GateNeverBlocks ==
  (globalPredictorSize = 4 /\ WeightsClamped(weightsTable)) =>
    /\ theta = 31 /\ min_weight = -2 /\ max_weight = 1
    /\ \A p \in Perceptrons :
         abs(weightsTable[p][0] + SR[globalPredictorSize]) <= theta
    /\ (last.op = "update" => Learned)

\* C20 witness: an update(squashed = false) that learned although the
\* ledger had accumulated four saturated weights on top of the bias.
C20_Witness ==
  /\ globalPredictorSize = 4
  /\ WeightsClamped(weightsTable)
  /\ Learned
  /\ last.squashed = FALSE
  /\ abs(last.pre.SR[globalPredictorSize]) = 4
  /\ abs(last.pre.weightsTable[last.addr % perceptronCount][0]
           + last.pre.SR[globalPredictorSize]) >= 5

====
